---- MODULE Spec2Model ----
(***************************************************************************)
(* Model of tct (traffic tool for resilience testing).                     *)
(*                                                                         *)
(* The process runs in one of two modes (main: switch app.Mode):           *)
(*   receiver - POST /inbox handler with fault injection and the outage    *)
(*              lifecycle goroutine (package handler);                     *)
(*   sender   - the rate-paced request generator (package generator).      *)
(*                                                                         *)
(* Time is discrete.  One Tick is one model time unit (Second units make   *)
(* one second).  A wait (time.Sleep, time.After, the ticker) is a          *)
(* countdown that Tick decrements; the waiting goroutine resumes at the    *)
(* instant the countdown reaches 0, and code between two waits takes no    *)
(* time: Tick is disabled while a timer is due or a goroutine has a step   *)
(* to take.  External events (the shutdown signal, request arrival, the    *)
(* peer's answer to a send) interleave freely, also with the goroutines    *)
(* that resume at the same instant.  After the shutdown                    *)
(* signal main returns without waiting for anything, so the process exit   *)
(* is such a step: no time passes between the signal and the exit.         *)
(*                                                                         *)
(* Configurations take each duration at 0 and at its bound, each rate at   *)
(* 0, 1/RateScale and 1; a jitter draw is the least or the greatest value  *)
(* of its range.  Requests are numbered in their order of arrival.  The    *)
(* sender's rate is any accepted one of -1, 0, 1/2, 1, 2 and FastRPS       *)
(* requests per second (FastRPS has an interval below one nanosecond,      *)
(* which the conversion to time.Duration truncates to 0; the interval of   *)
(* the rate 0 is whatever the build makes of +Inf); its target URL is      *)
(* well-formed or not.  A time unit is half a second.                      *)
(*                                                                         *)
(* Probabilities are integers out of RateScale: a rate r stands for        *)
(* r/RateScale, rand.Float64() is a draw in 0..RateScale-1.                *)
(***************************************************************************)
EXTENDS Integers, Sequences, FiniteSets, TLC

\* ---- bounds ------------------------------------------------------------
MaxWrites == 3         \* setActive calls followed at the level of the lock
NumReq == 2            \* inbound requests (handler invocations)
MaxSends == 2          \* send operations the generator may dispatch
MaxTime == 7           \* the clock reading saturates here
RateScale == 2         \* resolution of probabilities and random draws
MaxDelay == 1          \* responseDelay is 0 or MaxDelay
MaxJitter == 2         \* responseJitter is 0 or MaxJitter
MaxOutageAfter == 2    \* outageAfter is 0 or MaxOutageAfter
MaxOutageFor == 4      \* outageFor is 0 or MaxOutageFor
MaxStartDelay == 1     \* startDelay is 0 or MaxStartDelay
MaxTimeout == 2        \* requestTimeout is 0 or MaxTimeout
MaxOutages == 2        \* the count of outage starts saturates here

\* ---- program constants -------------------------------------------------
Second == 2                 \* time.Second, in model time units
NanosPerSecond == 1000000000  \* time.Second, in nanoseconds (a time.Duration)
StatusOK == 200             \* http.StatusOK
StatusInternalServerError == 500
StatusNotFound == 404       \* stands for any status other than 200 and 500
FastRPS == 2000000000       \* an accepted TCT_RPS above one request per time unit
MinDuration == -1           \* stands for math.MinInt64 ns, a negative duration
FarDuration == 2147483647   \* stands for math.MaxInt64 ns, longer than any run

Requests == 1..NumReq
Sends == 1..MaxSends
Draws == 0..(RateScale - 1)      \* values of rand.Float64(), scaled
Rates == {0, 1, RateScale}       \* probabilities 0.0, 1/RateScale and 1.0
StatusCodes == {StatusOK, StatusInternalServerError, StatusNotFound}

Min(a, b) == IF a < b THEN a ELSE b

VARIABLES
  mode,        \* app.Mode: "sender" or "receiver"
  cfg,         \* config.Config (immutable)
  now,         \* clock reading since process start, saturating at MaxTime
  ctxDone,     \* the signal.NotifyContext context has been cancelled
  exited,      \* the process has ended
  runErr,      \* what runSender / runReceiver returned to main ("none": nothing yet)
  startErr,    \* srv.Start has returned a server error
  active,      \* outageState.active
  ctl,         \* the outage.manage goroutine: [pc, timer]
  sinceFlip,   \* time since the flag last changed (or since controller start)
  sinceOn,     \* time since the last Normal -> Outage transition
  outages,     \* number of Normal -> Outage transitions so far (saturating)
  gauge,       \* ReceiverMetrics.OutageState
  req,         \* one record per handler invocation
  gen,         \* generator.Run: [pc, timer, sel, ret]
  ticker,      \* time.Ticker: [running, timer, pending]
  send,        \* one record per sendRequest goroutine
  inflight,    \* SenderMetrics.Inflight
  mutex,       \* outageState.mutex: [writer, pending, readers]
  rd,          \* one isActive call per handler invocation: [pc, val, at]
  wr           \* the controller's setActive calls: [pc, n]

vars == <<mode, cfg, now, ctxDone, exited, runErr, startErr, active, ctl, sinceFlip, sinceOn,
          outages, gauge, req, gen, ticker, send, inflight, mutex, rd, wr>>

rcvVars == <<active, ctl, sinceFlip, sinceOn, outages, gauge, req>>
sndVars == <<gen, ticker, send, inflight>>
lockVars == <<mutex, rd, wr>>

\* ---- configuration -----------------------------------------------------
\* TCT_RPS given as a fraction num/den: -1.0, 0.0, 0.5, 1.0, 2.0 and FastRPS.
\* For 0.0 the quotient below is +Inf, and what the conversion of +Inf to
\* time.Duration yields depends on the build (inf): math.MinInt64 on some
\* platforms, math.MaxInt64 on others.
RPSInputs ==
  { [num |-> -1, den |-> 1, inf |-> FarDuration],
    [num |-> 0, den |-> 1, inf |-> MinDuration],
    [num |-> 0, den |-> 1, inf |-> FarDuration],
    [num |-> 1, den |-> 2, inf |-> FarDuration],
    [num |-> 1, den |-> 1, inf |-> FarDuration],
    [num |-> 2, den |-> 1, inf |-> FarDuration],
    [num |-> FastRPS, den |-> 1, inf |-> FarDuration] }

\* env tag min=0: if f < minVal { return error }
validateField(rps) == ~(rps.num < 0)

\* the values of cfg.RPS the process may run with
RPSValues == {rps \in RPSInputs : validateField(rps)}

\* interval := time.Duration(float64(time.Second) / cfg.RPS), in nanoseconds:
\* the quotient NanosPerSecond * den / num truncated toward zero to a whole
\* nanosecond (written so that no intermediate value leaves 32 bits)
Interval(rps) ==
  IF rps.num = 0 THEN rps.inf
  ELSE (NanosPerSecond \div rps.num) * rps.den
         + ((NanosPerSecond % rps.num) * rps.den) \div rps.num

\* nanoseconds in one model time unit
UnitNanos == NanosPerSecond \div Second

\* a time.Duration in model time units; the rates explored have intervals
\* of whole time units
Units(d) == IF d = FarDuration THEN FarDuration ELSE d \div UnitNanos

\* the ticker's period in model time units
Period(rps) == Units(Interval(rps))

\* targetOK: "http://<ReceiverHost>:<port>/inbox" parses as a URL (any string
\* is accepted as TCT_RECEIVER_HOST)
SenderDefaults ==
  [rps |-> [num |-> 1, den |-> 1, inf |-> FarDuration], startDelay |-> 0,
   requestTimeout |-> 2 * Second,
   targetOK |-> TRUE]

ReceiverConfigs ==
  { [responseDelay |-> d, responseJitter |-> j, hangRate |-> h, errorRate |-> e,
     outageAfter |-> oa, outageFor |-> of, outageRepeat |-> rp,
     rps |-> SenderDefaults.rps, startDelay |-> SenderDefaults.startDelay,
     requestTimeout |-> SenderDefaults.requestTimeout,
     targetOK |-> SenderDefaults.targetOK] :
      d \in {0, MaxDelay}, j \in {0, MaxJitter}, h \in Rates, e \in Rates,
      oa \in {0, MaxOutageAfter}, of \in {0, MaxOutageFor}, rp \in BOOLEAN }

SenderConfigs ==
  { [responseDelay |-> 0, responseJitter |-> 0, hangRate |-> 0, errorRate |-> 0,
     outageAfter |-> 0, outageFor |-> 0, outageRepeat |-> FALSE,
     rps |-> r, startDelay |-> sd, requestTimeout |-> to, targetOK |-> ok] :
      r \in RPSValues, sd \in {0, MaxStartDelay}, to \in {0, MaxTimeout},
      ok \in BOOLEAN }

\* ---- initial state -----------------------------------------------------
IdleReq ==
  [pc |-> "idle", flag |-> FALSE, elapsed |-> 0, timer |-> 0,
   jitter |-> -1, delay |-> -1,
   outcomes |-> <<>>, observed |-> <<>>, status |-> 0, body |-> ""]

\* what ended the send: status is resp.StatusCode (0: no response), err the
\* error - "build" (NewRequestWithContext), "conn", "deadline" (the client's
\* Timeout) or "canceled" ("": none)
IdleSend == [pc |-> "idle", timer |-> 0, outcomes |-> <<>>, status |-> 0, err |-> ""]

\* mutant: the controller starts when either duration is positive
ControllerStarts_Either(c) == c.outageAfter > 0 \/ c.outageFor > 0

\* InboxHandler: if cfg.OutageAfter > 0 && cfg.OutageFor > 0 { go outage.manage() }
ControllerStarts(c) == c.outageAfter > 0 /\ c.outageFor > 0

\* the controller goroutine right after it is started: time.Sleep(OutageAfter)
InitCtl(c) ==
  IF ControllerStarts(c)
    THEN [pc |-> "initial_wait", timer |-> c.outageAfter]
    ELSE [pc |-> "none", timer |-> 0]

\* time.NewTicker(interval) panics unless interval > 0
TickerPanics(c) == Interval(c.rps) <= 0

\* go func() { generatorDone <- generator.Run(...) }(): the generator's
\* goroutine waits out the start delay, or has yet to run on to NewTicker
InitGen(c) ==
  IF c.startDelay > 0
    THEN [pc |-> "start_delay", timer |-> c.startDelay, sel |-> "parked", ret |-> "none"]
    ELSE [pc |-> "start", timer |-> 0, sel |-> "none", ret |-> "none"]

\* no ticker before Run creates it
InitTicker(c) == [running |-> FALSE, timer |-> 0, pending |-> FALSE]

Init ==
  /\ mode \in {"sender", "receiver"}
  /\ cfg \in (IF mode = "receiver" THEN ReceiverConfigs ELSE SenderConfigs)
  /\ now = 0
  /\ ctxDone = FALSE
  /\ exited = FALSE
  /\ runErr = "none"
  /\ startErr = FALSE
  /\ active = FALSE
  /\ ctl = (IF mode = "receiver" THEN InitCtl(cfg) ELSE [pc |-> "none", timer |-> 0])
  /\ sinceFlip = 0
  /\ sinceOn = 0
  /\ outages = 0
  /\ gauge = 0
  /\ req = [r \in Requests |-> IdleReq]
  /\ gen = (IF mode = "sender" THEN InitGen(cfg) ELSE [pc |-> "none", timer |-> 0, sel |-> "none", ret |-> "none"])
  /\ ticker = (IF mode = "sender" THEN InitTicker(cfg)
                                  ELSE [running |-> FALSE, timer |-> 0, pending |-> FALSE])
  /\ send = [s \in Sends |-> IdleSend]
  /\ inflight = 0
  /\ mutex = [writer |-> FALSE, pending |-> FALSE, readers |-> {}]
  /\ rd = [r \in Requests |-> [pc |-> "idle", val |-> FALSE, at |-> 0]]
  /\ wr = [pc |-> "idle", n |-> 0]

\* ---- urgency -----------------------------------------------------------
CtlWaiting == ctl.pc \in {"initial_wait", "outage", "normal_wait"}

\* a timer has expired and its goroutine has not resumed yet (ticks beyond
\* the MaxSends sends the model follows are left out)
TimerDue ==
  \/ CtlWaiting /\ ctl.timer = 0
  \/ \E r \in Requests : req[r].pc = "sleep" /\ req[r].timer = 0
  \/ gen.pc = "start_delay" /\ gen.sel = "parked" /\ gen.timer = 0
  \/ ticker.running /\ ticker.timer = 0 /\ \E s \in Sends : send[s].pc = "idle"
  \/ \E s \in Sends : send[s].pc = "do" /\ cfg.requestTimeout > 0 /\ send[s].timer = 0

\* a goroutine is runnable: it has a step to take that waits for nothing
StepPending ==
  \/ ctxDone /\ ~exited
  \/ \E r \in Requests : req[r].pc = "checked"
  \/ gen.pc = "start"
  \/ gen.pc \in {"start_delay", "loop"} /\ gen.sel # "parked"
  \/ \E s \in Sends : \/ send[s].pc \in {"spawned", "build_failed"}
                      \/ send[s].pc = "do" /\ ctxDone

\* ---- outage controller (outageState.manage) ----------------------------
\* setActive(active): o.active = active under the write lock
setActive(a) == active' = a

\* loop head: setActive(true); time.Sleep(o.cfg.OutageFor)
ManageStartOutage ==
  /\ mode = "receiver" /\ ~exited
  /\ ctl.pc \in {"initial_wait", "normal_wait"}
  /\ ctl.timer = 0
  /\ setActive(TRUE)
  /\ ctl' = [pc |-> "outage", timer |-> cfg.outageFor]
  /\ sinceFlip' = 0
  /\ sinceOn' = 0
  /\ outages' = Min(outages + 1, MaxOutages)
  /\ UNCHANGED <<mode, cfg, now, ctxDone, exited, runErr, startErr, gauge, req>>
  /\ UNCHANGED lockVars
  /\ UNCHANGED sndVars

\* mutant: the wait before the next cycle sleeps OutageFor
ManageEndOutage_SleepFor ==
  /\ mode = "receiver" /\ ~exited
  /\ ctl.pc = "outage"
  /\ ctl.timer = 0
  /\ setActive(FALSE)
  /\ ctl' = IF ~cfg.outageRepeat
              THEN [pc |-> "done", timer |-> 0]
              ELSE [pc |-> "normal_wait", timer |-> cfg.outageFor]
  /\ sinceFlip' = 0
  /\ UNCHANGED <<mode, cfg, now, ctxDone, exited, runErr, startErr, sinceOn, outages, gauge, req>>
  /\ UNCHANGED lockVars
  /\ UNCHANGED sndVars

\* mutant: the loop ignores OutageRepeat and always goes on
ManageEndOutage_AlwaysRepeat ==
  /\ mode = "receiver" /\ ~exited
  /\ ctl.pc = "outage"
  /\ ctl.timer = 0
  /\ setActive(FALSE)
  /\ ctl' = [pc |-> "normal_wait", timer |-> cfg.outageAfter]
  /\ sinceFlip' = 0
  /\ UNCHANGED <<mode, cfg, now, ctxDone, exited, runErr, startErr, sinceOn, outages, gauge, req>>
  /\ UNCHANGED lockVars
  /\ UNCHANGED sndVars

\* mutant: the end of the outage lets the requests it blocked go on
ManageEndOutage_ReleasesBlocked ==
  /\ mode = "receiver" /\ ~exited
  /\ ctl.pc = "outage"
  /\ ctl.timer = 0
  /\ setActive(FALSE)
  /\ ctl' = IF ~cfg.outageRepeat
              THEN [pc |-> "done", timer |-> 0]
              ELSE [pc |-> "normal_wait", timer |-> cfg.outageAfter]
  /\ sinceFlip' = 0
  /\ req' = [r \in Requests |->
               IF req[r].pc = "outage"
                 THEN [req[r] EXCEPT !.pc = "sleep", !.timer = 0]
                 ELSE req[r]]
  /\ UNCHANGED <<mode, cfg, now, ctxDone, exited, runErr, startErr, sinceOn, outages, gauge>>
  /\ UNCHANGED lockVars
  /\ UNCHANGED sndVars

\* mutant: the end of the outage writes true once more
ManageEndOutage_WritesTrue ==
  /\ mode = "receiver" /\ ~exited
  /\ ctl.pc = "outage"
  /\ ctl.timer = 0
  /\ setActive(TRUE)
  /\ ctl' = IF ~cfg.outageRepeat
              THEN [pc |-> "done", timer |-> 0]
              ELSE [pc |-> "normal_wait", timer |-> cfg.outageAfter]
  /\ sinceFlip' = 0
  /\ UNCHANGED <<mode, cfg, now, ctxDone, exited, runErr, startErr, sinceOn, outages, gauge, req>>
  /\ UNCHANGED lockVars
  /\ UNCHANGED sndVars

\* setActive(false); if !OutageRepeat { return }; time.Sleep(o.cfg.OutageAfter)
ManageEndOutage ==
  /\ mode = "receiver" /\ ~exited
  /\ ctl.pc = "outage"
  /\ ctl.timer = 0
  /\ setActive(FALSE)
  /\ ctl' = IF ~cfg.outageRepeat
              THEN [pc |-> "done", timer |-> 0]
              ELSE [pc |-> "normal_wait", timer |-> cfg.outageAfter]
  /\ sinceFlip' = 0
  /\ UNCHANGED <<mode, cfg, now, ctxDone, exited, runErr, startErr, sinceOn, outages, gauge, req>>
  /\ UNCHANGED lockVars
  /\ UNCHANGED sndVars

\* ---- fault injection pipeline (the handler InboxHandler returns) -------
\* An invocation reads the flag (isActive) in one step and runs on to its
\* first wait in another: the controller and other invocations may run
\* between the two.

\* isActive(): o.active under the read lock
isActive == active

\* m.RecordRequest(outcome), for the invocation rec
RecordRequest(rec, outcome) == [rec EXCEPT !.outcomes = Append(@, outcome)]

\* mutant: the processing time is not observed
ObserveHandlerTime_Dropped(rec) == rec

\* m.ObserveHandlerTime(time.Since(start).Seconds())
ObserveHandlerTime(rec) == [rec EXCEPT !.observed = Append(@, rec.elapsed)]

\* mutant: the outage branch records the outcome and goes on to respond
OutageBlock_GoesOn(rec) ==
  [RecordRequest(rec, "outage") EXCEPT !.pc = "sleep", !.timer = 0]

\* step 1, outage active: m.RecordRequest("outage"); select {}
OutageBlock(rec) == [RecordRequest(rec, "outage") EXCEPT !.pc = "outage"]

\* mutant: the hang decision compares the draw with ErrorRate
HangDecision_ErrorRate(rec, d) ==
  IF d < cfg.errorRate
    THEN [RecordRequest(rec, "hang") EXCEPT !.pc = "hung"]
    ELSE [rec EXCEPT !.pc = "delay"]

\* step 2 on hang draw d:
\* if d < cfg.HangRate { m.RecordRequest("hang"); select {} }
HangDecision(rec, d) ==
  IF d < cfg.hangRate
    THEN [RecordRequest(rec, "hang") EXCEPT !.pc = "hung"]
    ELSE [rec EXCEPT !.pc = "delay"]

\* rand.Int63n(int64(cfg.ResponseJitter)): a value in [0, ResponseJitter),
\* drawn only if cfg.ResponseJitter > 0 (-1 stands for no draw); the least
\* and the greatest value of the range are tried
JitterDraws(c) == IF c.responseJitter > 0 THEN {0, c.responseJitter - 1} ELSE {-1}

\* mutant: the jitter replaces the base delay instead of adding to it
AppliedDelay_JitterOnly(c, j) == IF j >= 0 THEN j ELSE c.responseDelay

\* delay := cfg.ResponseDelay; if jitter drawn { delay += jitter }
AppliedDelay(c, j) == IF j >= 0 THEN c.responseDelay + j ELSE c.responseDelay

\* step 3 on jitter draw j: if delay > 0 { time.Sleep(delay) }; a delay of 0
\* is a wait that is over at once
ApplyDelay(rec, j) ==
  [rec EXCEPT !.pc = "sleep", !.jitter = j,
              !.delay = AppliedDelay(cfg, j), !.timer = AppliedDelay(cfg, j)]

\* mutant: the hang check comes before the outage check
Pipeline_HangFirst(rec, flag, d, j) ==
  IF HangDecision(rec, d).pc = "hung" THEN HangDecision(rec, d)
  ELSE IF flag THEN OutageBlock(rec)
  ELSE ApplyDelay(HangDecision(rec, d), j)

\* the handler from the flag's check to its first wait, given the flag it
\* read and the values it draws: outage check, then hang check, then the delay
Pipeline(rec, flag, d, j) ==
  IF flag THEN OutageBlock(rec)
  ELSE IF HangDecision(rec, d).pc = "hung" THEN HangDecision(rec, d)
  ELSE ApplyDelay(HangDecision(rec, d), j)

\* a request arrives (requests are numbered in their order of arrival):
\* start := time.Now(); outage.isActive() returns the flag
InboxEnter(r) ==
  /\ mode = "receiver" /\ ~exited
  /\ req[r].pc = "idle"
  /\ \A q \in Requests : q < r => req[q].pc # "idle"
  /\ req' = [req EXCEPT ![r] = [@ EXCEPT !.pc = "checked", !.flag = isActive]]
  /\ UNCHANGED <<mode, cfg, now, ctxDone, exited, runErr, startErr, active, ctl, sinceFlip,
                 sinceOn, outages, gauge>>
  /\ UNCHANGED lockVars
  /\ UNCHANGED sndVars

\* mutant: a request that is not blocked ends the outage
InboxProceed_EndsOutage(r) ==
  /\ mode = "receiver" /\ ~exited
  /\ req[r].pc = "checked"
  /\ \E d \in Draws, j \in JitterDraws(cfg) :
       req' = [req EXCEPT ![r] = Pipeline(@, req[r].flag, d, j)]
  /\ gauge' = IF req[r].flag THEN 1 ELSE 0
  /\ active' = (active /\ req[r].flag)
  /\ UNCHANGED <<mode, cfg, now, ctxDone, exited, runErr, startErr, ctl, sinceFlip, sinceOn,
                 outages>>
  /\ UNCHANGED lockVars
  /\ UNCHANGED sndVars

\* the handler goes on with the value it read, steps 1 to 3: the gauge is set
\* by m.SetOutageState(true) in the outage branch, m.SetOutageState(false)
\* else
InboxProceed(r) ==
  /\ mode = "receiver" /\ ~exited
  /\ req[r].pc = "checked"
  /\ \E d \in Draws, j \in JitterDraws(cfg) :
       req' = [req EXCEPT ![r] = Pipeline(@, req[r].flag, d, j)]
  /\ gauge' = IF req[r].flag THEN 1 ELSE 0
  /\ UNCHANGED <<mode, cfg, now, ctxDone, exited, runErr, startErr, active, ctl, sinceFlip,
                 sinceOn, outages>>
  /\ UNCHANGED lockVars
  /\ UNCHANGED sndVars

\* the handler returns: its locals (start, delay, the draws) are gone
Return(rec) ==
  [rec EXCEPT !.pc = "done", !.elapsed = 0, !.timer = 0,
              !.jitter = -1, !.delay = -1]

\* w.WriteHeader(code); w.Write(body)
WriteResponse(rec, code, body) == [rec EXCEPT !.status = code, !.body = body]

\* mutant: the error decision compares the draw with HangRate
Respond_HangRate(rec, e) ==
  IF e < cfg.hangRate
    THEN WriteResponse(ObserveHandlerTime(RecordRequest(rec, "error")),
                       StatusInternalServerError, "error")
    ELSE WriteResponse(ObserveHandlerTime(RecordRequest(rec, "ok")),
                       StatusOK, "ok")

\* step 4 on error draw e:
\* if e < cfg.ErrorRate { "error", 500 "error" } else { "ok", 200 "ok" }
Respond(rec, e) ==
  IF e < cfg.errorRate
    THEN WriteResponse(ObserveHandlerTime(RecordRequest(rec, "error")),
                       StatusInternalServerError, "error")
    ELSE WriteResponse(ObserveHandlerTime(RecordRequest(rec, "ok")),
                       StatusOK, "ok")

\* the delay is over: step 4, and the handler returns
InboxRespond(r) ==
  /\ mode = "receiver" /\ ~exited
  /\ req[r].pc = "sleep"
  /\ req[r].timer = 0
  /\ \E e \in Draws : req' = [req EXCEPT ![r] = Return(Respond(@, e))]
  /\ UNCHANGED <<mode, cfg, now, ctxDone, exited, runErr, startErr, active, ctl, sinceFlip, sinceOn,
                 outages, gauge>>
  /\ UNCHANGED lockVars
  /\ UNCHANGED sndVars

\* ---- request generator (generator.Run, sendRequest) --------------------
\* A goroutine blocked in a select is woken by the first of its channels to
\* become ready and proceeds with that case (gen.sel); a select entered with
\* several cases ready picks any one of them.

\* with no start delay Run goes straight on: time.NewTicker(interval), which
\* panics and ends the process unless interval > 0, then the loop's select,
\* which finds ctx.Done() ready if the signal has fired
GenStart ==
  /\ mode = "sender" /\ ~exited
  /\ gen.pc = "start"
  /\ IF TickerPanics(cfg)
       THEN /\ gen' = [pc |-> "panicked", timer |-> 0, sel |-> "none", ret |-> "none"]
            /\ exited' = TRUE
            /\ ticker' = ticker
       ELSE /\ gen' = [pc |-> "loop", timer |-> 0,
                       sel |-> IF ctxDone THEN "done" ELSE "parked", ret |-> "none"]
            /\ exited' = exited
            /\ ticker' = [running |-> TRUE, timer |-> Period(cfg.rps), pending |-> FALSE]
  /\ UNCHANGED <<mode, cfg, now, ctxDone, runErr, startErr, send, inflight>>
  /\ UNCHANGED lockVars
  /\ UNCHANGED rcvVars

\* select { case <-time.After(cfg.StartDelay): }, then NewTicker(interval) and
\* the first select of the loop; ret is the error Run returns (ctx.Err())
GenStartDelayElapsed ==
  /\ mode = "sender" /\ ~exited
  /\ gen.pc = "start_delay"
  /\ gen.sel = "parked"
  /\ gen.timer = 0
  /\ IF TickerPanics(cfg)
       THEN /\ gen' = [pc |-> "panicked", timer |-> 0, sel |-> "none", ret |-> "none"]
            /\ exited' = TRUE
            /\ ticker' = ticker
       ELSE /\ gen' = [pc |-> "loop", timer |-> 0, sel |-> "parked", ret |-> "none"]
            /\ exited' = exited
            /\ ticker' = [running |-> TRUE, timer |-> Period(cfg.rps), pending |-> FALSE]
  /\ UNCHANGED <<mode, cfg, now, ctxDone, runErr, startErr, send, inflight>>
  /\ UNCHANGED lockVars
  /\ UNCHANGED rcvVars

\* mutant: the ctx.Done() case of the start delay does not return
GenStartDelayCancelled_NoReturn ==
  /\ mode = "sender" /\ ~exited
  /\ gen.pc = "start_delay"
  /\ gen.sel = "done"
  /\ gen' = [pc |-> "loop", timer |-> 0, sel |-> "done", ret |-> "none"]
  /\ UNCHANGED <<mode, cfg, now, ctxDone, exited, runErr, startErr, ticker, send, inflight>>
  /\ UNCHANGED lockVars
  /\ UNCHANGED rcvVars

\* select { ... case <-ctx.Done(): return ctx.Err() } during the start delay
GenStartDelayCancelled ==
  /\ mode = "sender" /\ ~exited
  /\ gen.pc = "start_delay"
  /\ gen.sel = "done"
  /\ gen' = [pc |-> "returned", timer |-> 0, sel |-> "none", ret |-> "canceled"]
  /\ UNCHANGED <<mode, cfg, now, ctxDone, exited, runErr, startErr, ticker, send, inflight>>
  /\ UNCHANGED lockVars
  /\ UNCHANGED rcvVars

\* the runtime sends a tick on ticker.C: it goes to the loop's select if that
\* is blocked, else into the channel's buffer of one (and is dropped when the
\* buffer is full)
TickerFire ==
  /\ mode = "sender" /\ ~exited
  /\ ticker.running
  /\ ticker.timer = 0
  /\ \E s \in Sends : send[s].pc = "idle"
  /\ IF gen.pc = "loop" /\ gen.sel = "parked"
       THEN /\ gen' = [gen EXCEPT !.sel = "tick"]
            /\ ticker' = [ticker EXCEPT !.timer = Period(cfg.rps)]
       ELSE /\ gen' = gen
            /\ ticker' = [ticker EXCEPT !.pending = TRUE, !.timer = Period(cfg.rps)]
  /\ UNCHANGED <<mode, cfg, now, ctxDone, exited, runErr, startErr, send, inflight>>
  /\ UNCHANGED lockVars
  /\ UNCHANGED rcvVars

\* the cases the loop's select may proceed with when it is entered
SelectCases ==
  IF ctxDone /\ ticker.pending THEN {"done", "tick"}
  ELSE IF ctxDone THEN {"done"}
  ELSE IF ticker.pending THEN {"tick"}
  ELSE {"parked"}

\* mutant: the tick is consumed without a dispatch while a send is in flight
GenDispatch_SkipsWhenBusy(s) ==
  /\ mode = "sender" /\ ~exited
  /\ gen.pc = "loop"
  /\ gen.sel = "tick"
  /\ send[s].pc = "idle"
  /\ \A t \in Sends : send[t].pc = "idle" => s <= t
  /\ send' = IF \E t \in Sends : send[t].pc = "do"
               THEN send
               ELSE [send EXCEPT ![s] = [@ EXCEPT !.pc = "spawned"]]
  /\ \E c \in SelectCases :
       /\ gen' = [gen EXCEPT !.sel = c]
       /\ ticker' = IF c = "tick" THEN [ticker EXCEPT !.pending = FALSE] ELSE ticker
  /\ UNCHANGED <<mode, cfg, now, ctxDone, exited, runErr, startErr, inflight>>
  /\ UNCHANGED lockVars
  /\ UNCHANGED rcvVars

\* case <-ticker.C: go sendRequest(...); then the loop's select again
GenDispatch(s) ==
  /\ mode = "sender" /\ ~exited
  /\ gen.pc = "loop"
  /\ gen.sel = "tick"
  /\ send[s].pc = "idle"
  /\ \A t \in Sends : send[t].pc = "idle" => s <= t
  /\ send' = [send EXCEPT ![s] = [@ EXCEPT !.pc = "spawned"]]
  /\ \E c \in SelectCases :
       /\ gen' = [gen EXCEPT !.sel = c]
       /\ ticker' = IF c = "tick" THEN [ticker EXCEPT !.pending = FALSE] ELSE ticker
  /\ UNCHANGED <<mode, cfg, now, ctxDone, exited, runErr, startErr, inflight>>
  /\ UNCHANGED lockVars
  /\ UNCHANGED rcvVars

\* case <-ctx.Done(): return ctx.Err(); deferred ticker.Stop()
GenReturn ==
  /\ mode = "sender" /\ ~exited
  /\ gen.pc = "loop"
  /\ gen.sel = "done"
  /\ gen' = [pc |-> "returned", timer |-> 0, sel |-> "none", ret |-> "canceled"]
  /\ ticker' = [ticker EXCEPT !.running = FALSE]
  /\ UNCHANGED <<mode, cfg, now, ctxDone, exited, runErr, startErr, send, inflight>>
  /\ UNCHANGED lockVars
  /\ UNCHANGED rcvVars

\* sendRequest: m.InflightInc(); NewRequestWithContext; client.Do begins
\* unless the request could not be built
SendBegin(s) ==
  /\ mode = "sender" /\ ~exited
  /\ send[s].pc = "spawned"
  /\ inflight' = inflight + 1
  /\ send' = [send EXCEPT ![s] =
       [@ EXCEPT !.pc = IF cfg.targetOK THEN "do" ELSE "build_failed",
                 !.timer = cfg.requestTimeout]]
  /\ UNCHANGED <<mode, cfg, now, ctxDone, exited, runErr, startErr, gen, ticker>>
  /\ UNCHANGED lockVars
  /\ UNCHANGED rcvVars

\* mutant: the switch has no case for 500, which falls to the default
ClassifyStatus_No500(code) == IF code = StatusOK THEN "ok" ELSE "other"

\* switch resp.StatusCode
ClassifyStatus(code) ==
  IF code = StatusOK THEN "ok"
  ELSE IF code = StatusInternalServerError THEN "http_500"
  ELSE "other"

\* if err != nil { if ctx.Err() != nil { "timeout" } else { "conn" } }
ClassifyError(cancelled) == IF cancelled THEN "timeout" ELSE "conn"

\* mutant: the counter is decremented only when a response arrived
Finish_LeaksOnError(s, outcome, code, err) ==
  /\ send' = [send EXCEPT ![s] =
       [@ EXCEPT !.pc = "done", !.timer = 0, !.outcomes = Append(@, outcome),
                 !.status = code, !.err = err]]
  /\ inflight' = IF err = "" THEN inflight - 1 ELSE inflight

\* the send finishes: record the outcome; deferred m.InflightDec()
Finish(s, outcome, code, err) ==
  /\ send' = [send EXCEPT ![s] =
       [@ EXCEPT !.pc = "done", !.timer = 0, !.outcomes = Append(@, outcome),
                 !.status = code, !.err = err]]
  /\ inflight' = inflight - 1

\* mutant: a request that cannot be built ends Run with the error
SendBuildError_Fatal(s) ==
  /\ mode = "sender" /\ ~exited
  /\ send[s].pc = "build_failed"
  /\ Finish(s, "other", 0, "build")
  /\ gen' = [pc |-> "returned", timer |-> 0, sel |-> "none", ret |-> "build"]
  /\ ticker' = [ticker EXCEPT !.running = FALSE]
  /\ UNCHANGED <<mode, cfg, now, ctxDone, exited, runErr, startErr>>
  /\ UNCHANGED lockVars
  /\ UNCHANGED rcvVars

\* if err != nil { m.RecordError("other"); return } after NewRequestWithContext
SendBuildError(s) ==
  /\ mode = "sender" /\ ~exited
  /\ send[s].pc = "build_failed"
  /\ Finish(s, "other", 0, "build")
  /\ UNCHANGED <<mode, cfg, now, ctxDone, exited, runErr, startErr, gen, ticker>>
  /\ UNCHANGED lockVars
  /\ UNCHANGED rcvVars

\* client.Do returns a response with the given status
SendResponse(s, code) ==
  /\ mode = "sender" /\ ~exited
  /\ send[s].pc = "do"
  /\ Finish(s, ClassifyStatus(code), code, "")
  /\ UNCHANGED <<mode, cfg, now, ctxDone, exited, runErr, startErr, gen, ticker>>
  /\ UNCHANGED lockVars
  /\ UNCHANGED rcvVars

\* the errors client.Do may return now: the connection fails (any time), the
\* client's Timeout has elapsed (a Timeout of 0 is no timeout), or the
\* request's context, which is ctx, has been cancelled
ErrorCauses(s) ==
  {"conn"}
    \cup (IF cfg.requestTimeout > 0 /\ send[s].timer = 0 THEN {"deadline"} ELSE {})
    \cup (IF ctxDone THEN {"canceled"} ELSE {})

\* client.Do returns an error
SendError(s, cause) ==
  /\ mode = "sender" /\ ~exited
  /\ send[s].pc = "do"
  /\ cause \in ErrorCauses(s)
  /\ Finish(s, ClassifyError(ctxDone), 0, cause)
  /\ UNCHANGED <<mode, cfg, now, ctxDone, exited, runErr, startErr, gen, ticker>>
  /\ UNCHANGED lockVars
  /\ UNCHANGED rcvVars

\* ---- process lifecycle (main) ------------------------------------------
\* SIGINT / SIGTERM: signal.NotifyContext cancels ctx, which closes
\* ctx.Done() and wakes a generator blocked in a select
Cancel ==
  /\ ~exited
  /\ ~ctxDone
  /\ ctxDone' = TRUE
  /\ gen' = IF gen.pc \in {"start_delay", "loop"} /\ gen.sel = "parked"
              THEN [gen EXCEPT !.sel = "done"]
              ELSE gen
  /\ UNCHANGED <<mode, cfg, now, exited, runErr, startErr, ticker, send, inflight>>
  /\ UNCHANGED lockVars
  /\ UNCHANGED rcvVars

\* srv.Start once ctx is done: the shutdown goroutine calls srv.Shutdown,
\* ListenAndServe returns http.ErrServerClosed and Start returns nil
StartResult == "nil"

\* what the run function of the mode may return when srv.Start has returned
\* start: runReceiver returns it; runSender's select proceeds with any of its
\* ready cases: serverDone (start), generatorDone (what Run returned, if it
\* has), ctx.Done() (ctx.Err(), if ctx is done)
RunResults(start) ==
  IF mode = "receiver" THEN {start}
  ELSE {start}
         \cup (IF ctxDone THEN {"canceled"} ELSE {})
         \cup (IF gen.pc = "returned" THEN {gen.ret} ELSE {})

\* the exit status of the process (-1: it runs): 2 after a panic; else
\* if runErr != nil && runErr != context.Canceled { os.Exit(1) }, else 0
ExitCode ==
  IF ~exited THEN -1
  ELSE IF gen.pc = "panicked" THEN 2
  ELSE IF runErr # "nil" /\ runErr # "canceled" THEN 1
  ELSE 0

\* the run function returns once ctx is done and main returns with it: main
\* waits for no handler, send or server shutdown
ProcessExit ==
  /\ ~exited
  /\ ctxDone
  /\ exited' = TRUE
  /\ runErr' \in RunResults(StartResult)
  /\ UNCHANGED <<mode, cfg, now, ctxDone, startErr>>
  /\ UNCHANGED lockVars
  /\ UNCHANGED rcvVars
  /\ UNCHANGED sndVars

\* ListenAndServe fails (the port cannot be bound, at startup): srv.Start
\* returns "server error: ...", whether ctx is done or not, and the run
\* function returns to main
ListenFails ==
  /\ ~exited
  /\ now = 0
  /\ \A r \in Requests : req[r].pc = "idle"
  /\ exited' = TRUE
  /\ runErr' \in RunResults("server")
  /\ startErr' = TRUE
  /\ UNCHANGED <<mode, cfg, now, ctxDone>>
  /\ UNCHANGED lockVars
  /\ UNCHANGED rcvVars
  /\ UNCHANGED sndVars

\* ---- passage of time ---------------------------------------------------
Dec(t) == IF t > 0 THEN t - 1 ELSE 0
Sat(t) == Min(t + 1, MaxTime)
\* the phase stopwatches saturate above the longest possible period
MaxPhase == MaxOutageAfter + MaxOutageFor + 1
SatPhase(t) == Min(t + 1, MaxPhase)

Tick ==
  /\ ~exited
  /\ ~TimerDue
  /\ ~StepPending
  /\ now' = Sat(now)
  /\ ctl' = IF CtlWaiting THEN [ctl EXCEPT !.timer = Dec(@)] ELSE ctl
  /\ sinceFlip' = IF CtlWaiting THEN SatPhase(sinceFlip) ELSE sinceFlip
  /\ sinceOn' = IF CtlWaiting /\ outages > 0 THEN SatPhase(sinceOn) ELSE sinceOn
  /\ req' = [r \in Requests |->
              IF req[r].pc = "sleep"
                THEN [req[r] EXCEPT !.timer = Dec(@), !.elapsed = @ + 1]
                ELSE req[r]]
  /\ gen' = IF gen.pc = "start_delay" THEN [gen EXCEPT !.timer = Dec(@)] ELSE gen
  /\ ticker' = IF ticker.running /\ ticker.timer < FarDuration
                 THEN [ticker EXCEPT !.timer = Dec(@)]
                 ELSE ticker
  /\ send' = [s \in Sends |->
               IF send[s].pc = "do" THEN [send[s] EXCEPT !.timer = Dec(@)] ELSE send[s]]
  /\ UNCHANGED <<mode, cfg, ctxDone, exited, runErr, startErr, active, outages, gauge, inflight>>
  /\ UNCHANGED lockVars

\* ---- specification -----------------------------------------------------
Next ==
  \/ ManageStartOutage
  \/ ManageEndOutage
  \/ \E r \in Requests : InboxEnter(r)
  \/ \E r \in Requests : InboxProceed(r)
  \/ \E r \in Requests : InboxRespond(r)
  \/ GenStart
  \/ GenStartDelayElapsed
  \/ GenStartDelayCancelled
  \/ TickerFire
  \/ \E s \in Sends : GenDispatch(s)
  \/ GenReturn
  \/ \E s \in Sends : SendBegin(s)
  \/ \E s \in Sends, code \in StatusCodes : SendResponse(s, code)
  \/ \E s \in Sends : SendBuildError(s)
  \/ \E s \in Sends, cause \in {"conn", "deadline", "canceled"} : SendError(s, cause)
  \/ Cancel
  \/ ProcessExit
  \/ ListenFails
  \/ Tick

Spec == Init /\ [][Next]_vars

\* a goroutine of the process that is runnable takes its next step
GoroutineStep ==
  \/ ManageStartOutage
  \/ ManageEndOutage
  \/ \E r \in Requests : InboxProceed(r)
  \/ \E r \in Requests : InboxRespond(r)
  \/ GenStart
  \/ GenStartDelayElapsed
  \/ GenStartDelayCancelled
  \/ TickerFire
  \/ \E s \in Sends : GenDispatch(s)
  \/ GenReturn
  \/ \E s \in Sends : SendBegin(s)
  \/ \E s \in Sends : SendBuildError(s)
  \/ ProcessExit

\* liveness: time passes, and while some goroutine is runnable one of them
\* runs; the environment (signals, arriving requests, the peer's answers)
\* owes nothing
Fairness ==
  /\ WF_vars(Tick)
  /\ WF_vars(GoroutineStep)

\* the steps of a receiver process
ReceiverNext ==
  \/ ManageStartOutage
  \/ ManageEndOutage
  \/ \E r \in Requests : InboxEnter(r)
  \/ \E r \in Requests : InboxProceed(r)
  \/ \E r \in Requests : InboxRespond(r)
  \/ Cancel
  \/ ProcessExit
  \/ ListenFails
  \/ Tick

\* a receiver whose outage controller is started
OutageInit == Init /\ mode = "receiver" /\ ControllerStarts(cfg)

OutageLiveSpec == OutageInit /\ [][ReceiverNext]_vars /\ Fairness

\* a receiver that never hangs a request and fails all of them or none
AnswerInit ==
  Init /\ mode = "receiver" /\ cfg.hangRate = 0 /\ cfg.errorRate \in {0, RateScale}

AnswerLiveSpec == AnswerInit /\ [][ReceiverNext]_vars /\ Fairness

\* ---- the flag's lock (outageState.isActive, setActive) -----------------
\* The calls of isActive and setActive step by step.  sync.RWMutex: RLock
\* waits while a writer holds the lock or waits for it; Lock announces the
\* writer, then waits until the readers that hold the lock have left.  The
\* handler invocation r calls isActive once, at its entry; the controller
\* calls setActive(true), setActive(false), ... in turn; the waits between
\* the calls are left out, the calls interleave freely.

\* the variables these steps leave alone
flagFrame ==
  <<mode, cfg, now, ctxDone, exited, runErr, startErr, ctl, sinceFlip, sinceOn, outages,
    gauge, req, gen, ticker, send, inflight>>

\* the value the controller's call number n + 1 passes to setActive
WriteValue(n) == n % 2 = 0

\* the handler calls outage.isActive()
IsActiveCall(r) ==
  /\ rd[r].pc = "idle"
  /\ rd' = [rd EXCEPT ![r].pc = "rlock"]
  /\ UNCHANGED <<active, mutex, wr>>
  /\ UNCHANGED flagFrame

\* mutant: a reader takes the lock while a writer holds it
RLock_IgnoresWriter(r) ==
  /\ rd[r].pc = "rlock"
  /\ mutex' = [mutex EXCEPT !.readers = @ \cup {r}]
  /\ rd' = [rd EXCEPT ![r].pc = "locked"]
  /\ UNCHANGED <<active, wr>>
  /\ UNCHANGED flagFrame

\* o.mutex.RLock() returns
RLock(r) ==
  /\ rd[r].pc = "rlock"
  /\ ~mutex.writer /\ ~mutex.pending
  /\ mutex' = [mutex EXCEPT !.readers = @ \cup {r}]
  /\ rd' = [rd EXCEPT ![r].pc = "locked"]
  /\ UNCHANGED <<active, wr>>
  /\ UNCHANGED flagFrame

\* return o.active: the result is evaluated (at: the number of writes so far)
ReadActive(r) ==
  /\ rd[r].pc = "locked"
  /\ rd' = [rd EXCEPT ![r] = [pc |-> "read", val |-> active, at |-> wr.n]]
  /\ UNCHANGED <<active, mutex, wr>>
  /\ UNCHANGED flagFrame

\* deferred o.mutex.RUnlock(); isActive returns
RUnlock(r) ==
  /\ rd[r].pc = "read"
  /\ mutex' = [mutex EXCEPT !.readers = @ \ {r}]
  /\ rd' = [rd EXCEPT ![r].pc = "returned"]
  /\ UNCHANGED <<active, wr>>
  /\ UNCHANGED flagFrame

\* the calls of setActive the controller makes: two, unless the cycle repeats
WritesDue(c) == IF c.outageRepeat THEN MaxWrites ELSE Min(2, MaxWrites)

\* the controller calls o.setActive(...): o.mutex.Lock() announces the writer
SetActiveCall ==
  /\ wr.pc = "idle"
  /\ wr.n < WritesDue(cfg)
  /\ mutex' = [mutex EXCEPT !.pending = TRUE]
  /\ wr' = [wr EXCEPT !.pc = "lock"]
  /\ UNCHANGED <<active, rd>>
  /\ UNCHANGED flagFrame

\* mutant: the writer takes the lock while readers hold it
Lock_IgnoresReaders ==
  /\ wr.pc = "lock"
  /\ mutex' = [mutex EXCEPT !.writer = TRUE, !.pending = FALSE]
  /\ wr' = [wr EXCEPT !.pc = "locked"]
  /\ UNCHANGED <<active, rd>>
  /\ UNCHANGED flagFrame

\* o.mutex.Lock() returns: no reader holds the lock any more
Lock ==
  /\ wr.pc = "lock"
  /\ mutex.readers = {}
  /\ mutex' = [mutex EXCEPT !.writer = TRUE, !.pending = FALSE]
  /\ wr' = [wr EXCEPT !.pc = "locked"]
  /\ UNCHANGED <<active, rd>>
  /\ UNCHANGED flagFrame

\* o.active = active
WriteActive ==
  /\ wr.pc = "locked"
  /\ active' = WriteValue(wr.n)
  /\ wr' = [wr EXCEPT !.pc = "written"]
  /\ UNCHANGED <<mutex, rd>>
  /\ UNCHANGED flagFrame

\* deferred o.mutex.Unlock(); setActive returns
Unlock ==
  /\ wr.pc = "written"
  /\ mutex' = [mutex EXCEPT !.writer = FALSE]
  /\ wr' = [pc |-> "idle", n |-> wr.n + 1]
  /\ UNCHANGED <<active, rd>>
  /\ UNCHANGED flagFrame

\* a receiver whose controller runs (the faults of the later pipeline steps
\* play no part here)
LockInit ==
  /\ Init
  /\ mode = "receiver"
  /\ ControllerStarts(cfg)
  /\ cfg.hangRate = 0 /\ cfg.errorRate = 0
  /\ cfg.responseDelay = 0 /\ cfg.responseJitter = 0

LockNext ==
  \/ \E r \in Requests : IsActiveCall(r)
  \/ \E r \in Requests : RLock(r)
  \/ \E r \in Requests : ReadActive(r)
  \/ \E r \in Requests : RUnlock(r)
  \/ SetActiveCall
  \/ Lock
  \/ WriteActive
  \/ Unlock

LockSpec == LockInit /\ [][LockNext]_vars

\* a call that can go on goes on; that calls are made at all is up to the
\* handler's requests and the controller's schedule
LockStep ==
  \/ \E r \in Requests : RLock(r) \/ ReadActive(r) \/ RUnlock(r)
  \/ Lock
  \/ WriteActive
  \/ Unlock

LockLiveSpec == LockInit /\ [][LockNext]_vars /\ WF_vars(LockStep)

\* ---- claims ------------------------------------------------------------
\* the request r arrives and reads the flag in this step
Entered(r) == req[r].pc = "idle" /\ req'[r].pc # "idle"
\* the invocation r goes on from the flag's check to its first wait
Proceeded(r) == req[r].pc = "checked" /\ req'[r].pc # "checked"
Blocked(r) == req[r].pc \in {"outage", "hung"}
Has(r, outcome) == \E i \in 1..Len(req[r].outcomes) : req[r].outcomes[i] = outcome

\* the steps one invocation may take, in the pipeline's order
PipelineOrder(r) ==
  /\ Entered(r) =>
       /\ req'[r].pc = "checked" /\ req'[r].flag = active
       /\ req'[r].outcomes = <<>> /\ req'[r].status = 0
  /\ Proceeded(r) =>
       IF req[r].flag
         THEN /\ req'[r].pc = "outage" /\ req'[r].outcomes = <<"outage">>
              /\ req'[r].delay = -1
         ELSE IF req'[r].pc = "hung"
                THEN /\ cfg.hangRate > 0
                     /\ req'[r].outcomes = <<"hang">> /\ req'[r].delay = -1
                ELSE /\ cfg.hangRate < RateScale
                     /\ req'[r].pc = "sleep" /\ req'[r].outcomes = <<>>
                     /\ req'[r].delay >= 0
  /\ Proceeded(r) => req'[r].status = 0
  /\ (Blocked(r) \/ req[r].pc = "done") => req'[r] = req[r]
  /\ (req[r].pc = "sleep" /\ req'[r].pc # "sleep") =>
       /\ req[r].timer = 0
       /\ req'[r].pc = "done"
       /\ req'[r].status \in {StatusOK, StatusInternalServerError}
  /\ req'[r].pc = "sleep" => req'[r].status = 0
  /\ ~(Has(r, "hang")' /\ Has(r, "error")')

\* C1: the checks run in the order outage, hang, delay, error, success and the
\* first match decides: a request that reads the flag as active at entry is
\* classified outage and never responds, whatever the rates; a request whose
\* hang draw is below hangRate never reaches the delay or error step; no
\* request both hangs and errors.
C1_PipelineOrder == [][\A r \in Requests : PipelineOrder(r)]_vars

\* an outage-blocked and a hung request, with errorRate = 1.0
C1_Witness ==
  /\ cfg.errorRate = RateScale
  /\ cfg.hangRate \in 1..RateScale
  /\ \E r1, r2 \in Requests :
       /\ req[r1].pc = "outage"
       /\ req[r2].pc = "hung" /\ req[r2].outcomes = <<"hang">>

\* the configuration of the worked example: outageAfter = 1s, outageFor = 2s
ExampleOutage == cfg.outageAfter = 1 * Second /\ cfg.outageFor = 2 * Second

\* C2: with outageAfter = 1s, outageFor = 2s, outageRepeat = false, a request
\* entering at t in [0s,1s) or at t >= 3s is handled by the hang/delay/error/
\* success steps; a request entering at t in [1s,3s) records outage and never
\* receives a response (an invocation goes on from its entry in no time, so
\* that the clock reads its time of entry; the reading is exact below
\* MaxTime).
C2_OutageWindow ==
  [][(mode = "receiver" /\ ExampleOutage /\ ~cfg.outageRepeat) =>
       \A r \in Requests :
         /\ (Proceeded(r) /\ now < MaxTime) =>
              IF now >= 1 * Second /\ now < 3 * Second
                THEN req'[r].pc = "outage" /\ req'[r].outcomes = <<"outage">>
                ELSE req'[r].pc \in {"hung", "sleep"} /\ ~Has(r, "outage")'
         /\ req[r].pc = "outage" => req'[r] = req[r] /\ req[r].status = 0]_vars

Repeating == mode = "receiver" /\ ControllerStarts(cfg) /\ cfg.outageRepeat

\* C3: with outageRepeat = true and both durations positive the cycle repeats
\* for as long as the process runs: the flag is active infinitely often and
\* inactive infinitely often; every Outage phase lasts outageFor, every
\* Normal phase outageAfter, and two consecutive Normal -> Outage
\* transitions are outageAfter + outageFor apart.
C3_RepeatingCycle ==
  /\ []<>(Repeating => (exited \/ active))
  /\ []<>(Repeating => (exited \/ ~active))
  /\ [][Repeating =>
          /\ (active /\ ~active') => sinceFlip = cfg.outageFor
          /\ (~active /\ active') =>
               /\ sinceFlip = cfg.outageAfter
               /\ outages > 0 => sinceOn = cfg.outageAfter + cfg.outageFor]_vars

\* the second outage of a repeating cycle has begun
C3_Witness == Repeating /\ outages >= 2 /\ active /\ cfg.outageAfter # cfg.outageFor

Single == mode = "receiver" /\ ControllerStarts(cfg) /\ ~cfg.outageRepeat

\* C4: with outageRepeat = false and both durations positive the flag becomes
\* active exactly once; with the Outage -> Normal transition the controller
\* task ends, and the flag is false ever after.
C4_SingleOutage ==
  /\ <>(Single => (exited \/ ctl.pc = "done"))
  /\ [][Single =>
          /\ (~active /\ active') => outages = 0 /\ ctl.pc = "initial_wait"
          /\ (active /\ ~active') => ctl'.pc = "done" /\ outages = 1
          /\ ctl.pc = "done" => ctl'.pc = "done" /\ ~active /\ ~active'
                                /\ outages' = 1]_vars

\* the single outage is over and time has moved on
C4_Witness == Single /\ ctl.pc = "done" /\ outages = 1 /\ ~active /\ now = MaxTime

\* C5: unless both outageAfter and outageFor are positive the controller is
\* never started: the flag is never active and no request is classified
\* outage, whatever outageRepeat is.
C5_InertController ==
  (mode = "receiver" /\ (cfg.outageAfter <= 0 \/ cfg.outageFor <= 0)) =>
     /\ ~active
     /\ ctl.pc = "none"
     /\ outages = 0
     /\ \A r \in Requests : req[r].pc # "outage" /\ ~Has(r, "outage")

\* outageFor is positive, outageAfter is 0, and a request has been answered
C5_Witness ==
  /\ mode = "receiver" /\ cfg.outageAfter = 0 /\ cfg.outageFor > 0 /\ cfg.outageRepeat
  /\ now = MaxTime
  /\ \E r \in Requests : req[r].pc = "done"

\* C6: an invocation that responds (error or success) has emitted exactly one
\* outcome metric and one processing-time observation; one that suspends for
\* good (outage or hang) has emitted exactly one outcome metric and no
\* processing-time observation; none emits more than one outcome metric.
C6_MetricsPerInvocation ==
  \A r \in Requests :
    /\ Len(req[r].outcomes) <= 1
    /\ req[r].pc = "done" =>
         /\ Len(req[r].outcomes) = 1 /\ Len(req[r].observed) = 1
         /\ req[r].outcomes[1] = (IF req[r].status = StatusOK THEN "ok" ELSE "error")
    /\ req[r].pc = "outage" => req[r].outcomes = <<"outage">> /\ req[r].observed = <<>>
    /\ req[r].pc = "hung" => req[r].outcomes = <<"hang">> /\ req[r].observed = <<>>
    /\ req[r].pc \in {"idle", "checked", "sleep"} =>
         req[r].outcomes = <<>> /\ req[r].observed = <<>>

\* one invocation answered with an error, the other hung
C6_Witness ==
  \E r1, r2 \in Requests :
    /\ req[r1].pc = "done" /\ req[r1].status = StatusInternalServerError
    /\ req[r2].pc = "hung"

AlwaysHang == mode = "receiver" /\ cfg.hangRate = RateScale

\* C7 as stated: with hangRate = 1.0 every request never produces a response
\* and records outcome hang.
C7_Original ==
  AlwaysHang =>
    \A r \in Requests :
      req[r].pc \notin {"idle", "checked"} =>
        req[r].pc = "hung" /\ req[r].outcomes = <<"hang">> /\ req[r].status = 0

\* C7 (amended): with hangRate = 1.0 every request never produces a response;
\* it records hang, unless it finds the outage flag active at entry, in
\* which case it records outage.
C7_AlwaysBlocked ==
  [][AlwaysHang =>
       \A r \in Requests :
         /\ Entered(r) => req'[r].flag = active
         /\ Proceeded(r) =>
              IF req[r].flag
                THEN req'[r].pc = "outage" /\ req'[r].outcomes = <<"outage">>
                ELSE req'[r].pc = "hung" /\ req'[r].outcomes = <<"hang">>
         /\ Blocked(r) => req'[r] = req[r]
         /\ req[r].status = 0 /\ req'[r].status = 0
         /\ req'[r].pc \in {"idle", "checked", "hung", "outage"}]_vars

\* hangRate = 1.0: one request hangs, another is caught by an outage
C7_Witness ==
  /\ AlwaysHang
  /\ \E r1, r2 \in Requests :
       /\ req[r1].pc = "hung" /\ req[r1].outcomes = <<"hang">>
       /\ req[r2].pc = "outage" /\ req[r2].outcomes = <<"outage">>

AlwaysError == mode = "receiver" /\ cfg.hangRate = 0 /\ cfg.errorRate = RateScale

\* C8: with hangRate = 0.0 and errorRate = 1.0 every request that finds no
\* active outage at entry is answered with HTTP 500, body "error", and records
\* the error outcome, whatever the draws are: while the process runs no such
\* request stays in its delay for ever, and it leaves the delay only by
\* answering.
C8_AlwaysError ==
  /\ [](AlwaysError =>
          \A r \in Requests :
            /\ req[r].pc # "hung"
            /\ req[r].pc = "done" =>
                 /\ req[r].status = StatusInternalServerError
                 /\ req[r].body = "error"
                 /\ req[r].outcomes = <<"error">>)
  /\ [][AlwaysError =>
          \A r \in Requests :
            /\ (Entered(r) /\ ~active) => ~req'[r].flag
            /\ (Proceeded(r) /\ ~req[r].flag) => req'[r].pc = "sleep"
            /\ req[r].pc = "sleep" => req'[r].pc \in {"sleep", "done"}]_vars
  /\ <>[](AlwaysError => (exited \/ \A r \in Requests : req[r].pc # "sleep"))

\* errorRate = 1.0: a delayed request has been answered with 500 while the
\* outage flag is set
C8_Witness ==
  /\ AlwaysError /\ cfg.responseDelay > 0 /\ active
  /\ \E r \in Requests : req[r].pc = "done" /\ req[r].status = StatusInternalServerError

NoFaults == mode = "receiver" /\ cfg.hangRate = 0 /\ cfg.errorRate = 0

\* C9: with hangRate = 0.0 and errorRate = 0.0 every request that finds no
\* active outage at entry is answered with HTTP 200, no earlier than
\* responseDelay and no later than responseDelay + responseJitter after entry;
\* the applied delay is responseDelay plus a draw in [0, responseJitter), and
\* nothing is drawn when responseJitter is 0; while the process runs no such
\* request stays in its delay for ever.
C9_DelayedSuccess ==
  /\ [](NoFaults =>
          \A r \in Requests :
            /\ req[r].pc # "hung"
            /\ req[r].pc = "sleep" =>
                 /\ cfg.responseJitter = 0 => req[r].jitter = -1
                 /\ cfg.responseJitter > 0 =>
                      req[r].jitter >= 0 /\ req[r].jitter < cfg.responseJitter
                 /\ req[r].delay =
                      cfg.responseDelay + (IF req[r].jitter >= 0 THEN req[r].jitter ELSE 0)
                 /\ req[r].elapsed + req[r].timer = req[r].delay
            /\ req[r].pc = "done" =>
                 /\ req[r].status = StatusOK /\ req[r].body = "ok"
                 /\ req[r].outcomes = <<"ok">>
                 /\ Len(req[r].observed) = 1
                 /\ req[r].observed[1] >= cfg.responseDelay
                 /\ req[r].observed[1] <= cfg.responseDelay + cfg.responseJitter)
  /\ [][NoFaults =>
          \A r \in Requests :
            /\ (Entered(r) /\ ~active) => ~req'[r].flag
            /\ (Proceeded(r) /\ ~req[r].flag) => req'[r].pc = "sleep"
            /\ req[r].pc = "sleep" => req'[r].pc \in {"sleep", "done"}
            /\ (req[r].pc = "sleep" /\ req'[r].pc = "done") =>
                 req'[r].observed = <<req[r].delay>>]_vars
  /\ <>[](NoFaults => (exited \/ \A r \in Requests : req[r].pc # "sleep"))

\* a request answered with 200 after the base delay plus a positive jitter
C9_Witness ==
  /\ NoFaults /\ cfg.responseDelay > 0 /\ cfg.responseJitter > 1
  /\ \E r \in Requests :
       /\ req[r].pc = "done" /\ req[r].status = StatusOK
       /\ req[r].observed = <<cfg.responseDelay + 1>>

\* C10: once the shared cancellation signal has fired the generator
\* dispatches no further send operation, however the signal interleaves with
\* pending timer ticks.
C10_NoDispatchAfterCancel ==
  [][ctxDone => \A s \in Sends : send[s].pc = "idle" => send'[s].pc = "idle"]_vars

\* C11: when the cancellation signal fires, sends already in flight are not
\* aborted by it: a send that has been in flight for some time and has not
\* used up its requestTimeout never ends because the context was cancelled.
C11_InflightNotAborted ==
  [][\A s \in Sends :
       (/\ send[s].pc = "do"
        /\ send[s].timer > 0 /\ send[s].timer < cfg.requestTimeout
        /\ send'[s].pc = "done") => send'[s].err # "canceled"]_vars

\* C12: a send aborted by its timeout or by the cancellation is classified
\* timeout - in particular one that exceeds requestTimeout - and what is
\* classified as a connection error is a connection failure.
C12_TimeoutClassified ==
  \A s \in Sends :
    send[s].pc = "done" =>
      /\ send[s].err \in {"deadline", "canceled"} => send[s].outcomes = <<"timeout">>
      /\ send[s].outcomes = <<"conn">> => send[s].err = "conn"

\* C13: every send that finishes has recorded exactly one outcome: success
\* for HTTP 200, server_error (http_500) for HTTP 500, other_error for any
\* other status and for a request that could not be built, timeout or
\* connection_error for a transport failure; a send that has not finished has
\* recorded none.
C13_OneOutcome ==
  \A s \in Sends :
    /\ send[s].pc # "done" => send[s].outcomes = <<>>
    /\ send[s].pc = "done" =>
         /\ Len(send[s].outcomes) = 1
         /\ (send[s].status # 0) # (send[s].err # "")
         /\ send[s].status = StatusOK => send[s].outcomes[1] = "ok"
         /\ send[s].status = StatusInternalServerError => send[s].outcomes[1] = "http_500"
         /\ send[s].status \notin {0, StatusOK, StatusInternalServerError} =>
              send[s].outcomes[1] = "other"
         /\ send[s].err = "build" => send[s].outcomes[1] = "other"
         /\ send[s].err \in {"conn", "deadline", "canceled"} =>
              send[s].outcomes[1] \in {"timeout", "conn"}

\* one send answered with 500, another failed in transport
C13_Witness ==
  \E s1, s2 \in Sends :
    /\ send[s1].pc = "done" /\ send[s1].status = StatusInternalServerError
    /\ send[s1].outcomes = <<"http_500">>
    /\ send[s2].pc = "done" /\ send[s2].err = "conn"

\* the process is between two instants: nothing is due, no goroutine runnable
Quiescent == ~TimerDue /\ ~StepPending

\* sends dispatched so far
Dispatched == Cardinality({s \in Sends : send[s].pc # "idle"})

\* ticks since the ticker was created (the clock reading is exact below MaxTime)
TicksSoFar == (now - cfg.startDelay) \div Period(cfg.rps)

\* C14: every tick dispatches a send, however many earlier sends are still in
\* flight: between two instants the number of sends dispatched is the number
\* of ticks so far (up to the MaxSends sends followed), so no tick waited for
\* or was skipped because of an unfinished send.
C14_EveryTickDispatches ==
  (/\ mode = "sender" /\ ~ctxDone /\ ~exited /\ ~TickerPanics(cfg)
   /\ Quiescent /\ now < MaxTime /\ now >= cfg.startDelay)
    => Dispatched = Min(TicksSoFar, MaxSends)

\* all the sends followed are in flight at once
C14_Witness ==
  /\ mode = "sender" /\ ~ctxDone /\ Quiescent /\ now < MaxTime
  /\ inflight = MaxSends
  /\ \A s \in Sends : send[s].pc = "do"

\* C15: every dispatched send completes no later than requestTimeout after it
\* was issued, for every requestTimeout >= 0: time never moves on for a send
\* that is inside client.Do and has used up its requestTimeout.
C15_BoundedByTimeout ==
  [][\A s \in Sends :
       (send[s].pc = "do" /\ send[s].timer = 0) => ~(now' > now)]_vars

\* C16: every time-based wait ends when the shutdown signal fires: once the
\* signal has fired no request is inside its response delay, the controller
\* is inside neither of its waits, and the generator is parked in neither of
\* its selects.
C16_WaitsCancellable ==
  ctxDone =>
    /\ \A r \in Requests : ~(req[r].pc = "sleep" /\ req[r].timer > 0)
    /\ ~(CtlWaiting /\ ctl.timer > 0)
    /\ ~(gen.pc \in {"start_delay", "loop"} /\ gen.sel = "parked")

NoSendDispatched == \A s \in Sends : send[s].pc = "idle"

\* C17: if the shutdown signal fires while the generator waits out startDelay
\* the wait ends (the select wakes with the ctx.Done() case), Run returns the
\* cancellation error, and no send is ever dispatched: none before the
\* return, none after it.
C17_StartDelayCancel ==
  [][mode = "sender" =>
       /\ (gen.pc = "start_delay" /\ ~ctxDone /\ ctxDone') =>
            gen'.pc = "start_delay" /\ gen'.sel = "done"
       /\ (gen.pc = "start_delay" /\ gen.sel = "done") =>
            \/ gen' = gen
            \/ gen'.pc = "returned" /\ gen'.ret = "canceled"
       /\ gen.pc = "start_delay" => NoSendDispatched /\ NoSendDispatched'
       /\ gen.pc = "returned" =>
            /\ gen' = gen
            /\ \A s \in Sends : send[s].pc = "idle" => send'[s].pc = "idle"]_vars

\* Run has returned from a start delay that had not elapsed
C17_Witness ==
  /\ mode = "sender" /\ cfg.startDelay > 0 /\ now < cfg.startDelay
  /\ gen.pc = "returned" /\ gen.ret = "canceled"
  /\ NoSendDispatched

\* the ticker delivers or buffers a tick in this step
TickDelivered ==
  /\ ticker.running /\ ticker'.running
  /\ ticker.timer = 0 /\ ticker'.timer > 0

\* ticks fall on the positive multiples of the interval after the ticker's
\* creation (the clock reading is exact below MaxTime)
TicksOnInterval ==
  (mode = "sender" /\ TickDelivered /\ now < MaxTime) =>
    /\ now > cfg.startDelay
    /\ (now - cfg.startDelay) % Period(cfg.rps) = 0

\* C18: the dispatch interval equals 1 / requestsPerSecond for every accepted
\* requestsPerSecond R > 0 (interval * R is one second; R = 0.5 gives exactly
\* 2 seconds), and successive ticks are that interval apart.
C18_IntervalIsInverseRate ==
  /\ [](mode = "sender" /\ cfg.rps.num > 0 =>
          Interval(cfg.rps) * cfg.rps.num = NanosPerSecond * cfg.rps.den)
  /\ [](mode = "sender" /\ cfg.rps.num = 1 /\ cfg.rps.den = 2 =>
          Interval(cfg.rps) = 2 * NanosPerSecond)
  /\ [][TicksOnInterval]_vars

\* C19: an invocation that took the outage or the hang branch stays suspended
\* in every later state, after the cancellation signal and after the flag is
\* cleared too: it remains in that branch, has written no response and has
\* emitted no processing-time observation (what it recorded on entering the
\* branch is never erased, so this covers every continuation).
C19_SuspendedForGood ==
  \A r \in Requests :
    (Has(r, "outage") \/ Has(r, "hang")) =>
      /\ req[r].pc = (IF Has(r, "outage") THEN "outage" ELSE "hung")
      /\ req[r].status = 0 /\ req[r].body = ""
      /\ req[r].observed = <<>>

\* the signal has fired and the outage is over: the request the outage
\* blocked and the request that hung are still suspended
C19_Witness ==
  /\ ctxDone /\ ~active /\ outages > 0
  /\ \E r1, r2 \in Requests :
       /\ req[r1].pc = "outage" /\ req[r1].status = 0
       /\ req[r2].pc = "hung" /\ req[r2].status = 0

\* a response is written to r in this step
Answered(r) == req[r].status = 0 /\ req'[r].status # 0

\* C20 as stated: while the shared outage flag is active no /inbox request
\* receives a response.
C20_Original == [][active => \A r \in Requests : ~Answered(r)]_vars

\* C20 (amended): no /inbox request that enters the pipeline while the
\* shared outage flag is active receives a response: it takes the outage
\* branch and stays there, and a response is only ever written to a request
\* that did not take it (such a request, entered before the interval, may be
\* answered during it).
C20_NoResponseToOutageArrivals ==
  [][\A r \in Requests :
       /\ (Entered(r) /\ active) => req'[r].flag /\ ~Answered(r)
       /\ (Proceeded(r) /\ req[r].flag) => req'[r].pc = "outage" /\ ~Answered(r)
       /\ req[r].pc = "outage" => req'[r].pc = "outage" /\ ~Answered(r)
       /\ Answered(r) => req[r].pc = "sleep" /\ ~Has(r, "outage")]_vars

\* during the first outage one request is blocked by it, and a request that
\* entered earlier has been answered no sooner than the outage began
C20_Witness ==
  /\ active /\ outages = 1 /\ sinceFlip > 0
  /\ \E r1, r2 \in Requests :
       /\ req[r1].pc = "outage" /\ req[r1].status = 0
       /\ req[r2].pc = "done" /\ req[r2].status # 0
       /\ req[r2].observed[1] >= cfg.outageAfter

\* the send s has ended in a failure of any kind
Failed(s) == send[s].pc = "done" /\ send[s].outcomes # <<"ok">>

\* C21: a failed send (request not built, connection failure, timeout, status
\* other than 200) never stops the generator: Run has returned only if the
\* cancellation signal fired, and it returns ctx.Err(); with failed sends
\* behind it and no signal the loop runs, its ticker too, and every tick so
\* far has dispatched a send.
C21_FailuresAbsorbed ==
  mode = "sender" =>
    /\ gen.pc = "returned" => ctxDone /\ gen.ret = "canceled"
    /\ ((\E s \in Sends : Failed(s)) /\ ~ctxDone) =>
         /\ gen.pc = "loop" /\ ticker.running
         /\ (Quiescent /\ now < MaxTime) => Dispatched = Min(TicksSoFar, MaxSends)

\* no signal yet: a send failed to build its request, and a later tick has
\* dispatched another send, which failed too
C21_Witness ==
  /\ mode = "sender" /\ ~ctxDone /\ gen.pc = "loop"
  /\ \E s1, s2 \in Sends :
       /\ s1 < s2
       /\ Failed(s1) /\ send[s1].err = "build"
       /\ Failed(s2)

\* C22: after an interrupt/termination signal the process exits with code 0,
\* in sender and in receiver mode, when the shutdown is clean (the server
\* did not fail), whichever of server completion, generator completion or
\* context cancellation the sender's select proceeds with; it exits with
\* code 1 when the server fails to bind.
C22_ExitCodes ==
  exited =>
    /\ (ctxDone /\ ~startErr) =>
         /\ ExitCode = 0
         /\ runErr \in (IF mode = "receiver" THEN {"nil"} ELSE {"nil", "canceled"})
    /\ startErr => ExitCode = 1
    /\ ExitCode = 1 => startErr

\* C23: the receiver's outage-state gauge reports the current outage state:
\* it is 1 when the shared outage flag is active and 0 when it is not.
C23_GaugeTracksFlag ==
  mode = "receiver" => gauge = (IF active THEN 1 ELSE 0)

\* the sends that have started and not finished
Started == {s \in Sends : send[s].pc \in {"do", "build_failed"}}

\* C24: the in-flight counter equals the number of sends that have started
\* and not yet finished, and is never negative: every send adds one when it
\* starts and takes one off when it ends, however it ends (request not built,
\* transport error, any HTTP status).
C24_InflightCount ==
  /\ inflight = Cardinality(Started)
  /\ inflight >= 0

\* one send has ended with an error and is no longer counted, another is
\* still in flight
C24_Witness ==
  /\ inflight = 1
  /\ \E s1, s2 \in Sends :
       /\ send[s1].pc = "done" /\ send[s1].err # ""
       /\ send[s2].pc = "do"

\* the controller's schedule: whether time t falls into an outage under c
Scheduled(c, t) ==
  /\ ControllerStarts(c)
  /\ t >= c.outageAfter
  /\ IF c.outageRepeat
       THEN (t - c.outageAfter) % (c.outageAfter + c.outageFor) < c.outageFor
       ELSE t < c.outageAfter + c.outageFor

\* C25: the outage flag is written only by the outage controller: a step in
\* which the flag changes is a step of the controller and of no request; a
\* step in which a pipeline invocation moves (entry, response) leaves the
\* flag and the controller alone; and the flag follows the configured
\* schedule, whatever requests arrived and when (the clock reading is exact
\* below MaxTime; at an instant of transition the controller may not have run
\* yet).
C25_OnlyControllerWrites ==
  /\ [][/\ active' # active => (ctl'.pc # ctl.pc /\ ctl.timer = 0 /\ req' = req)
        /\ (\E r \in Requests : req'[r].pc # req[r].pc) =>
             (active' = active /\ ctl' = ctl)]_vars
  /\ []((mode = "receiver" /\ now < MaxTime /\ ~(CtlWaiting /\ ctl.timer = 0))
          => (active <=> Scheduled(cfg, now)))

\* the outage has come and gone while one request was blocked by it and
\* another went through the other steps
C25_Witness ==
  /\ mode = "receiver" /\ ~active /\ outages > 0 /\ now < MaxTime
  /\ \E r1, r2 \in Requests :
       /\ req[r1].pc = "outage"
       /\ req[r2].pc \in {"sleep", "done"}

\* no call of isActive or setActive is under way
NoCallUnderWay ==
  /\ wr.pc = "idle"
  /\ \A r \in Requests : rd[r].pc \in {"idle", "returned"}

\* C26: access to the flag follows shared-read/exclusive-write locking:
\* while the controller holds the write lock no reader holds the read lock
\* (nor is between RLock and RUnlock), and the flag changes only under the
\* write lock; every isActive and setActive call that was made returns in
\* the end, so that readers and the writer never block each other for good.
C26_SharedReadExclusiveWrite ==
  /\ [](/\ mutex.writer => mutex.readers = {}
        /\ mutex.writer <=> wr.pc \in {"locked", "written"}
        /\ mutex.readers = {r \in Requests : rd[r].pc \in {"locked", "read"}})
  /\ [][active' # active => (mutex.writer /\ mutex.readers = {})]_vars
  /\ <>[]NoCallUnderWay

\* several readers hold the read lock at once while the writer waits for it
C26_Witness ==
  /\ Cardinality(mutex.readers) >= 2
  /\ wr.pc = "lock" /\ mutex.pending
  /\ wr.n > 0

\* the isActive call of r has evaluated its result
HasRead(r) == rd[r].pc \in {"read", "returned"}

\* C27: two reads of the flag with no write of the controller between them
\* return the same value, whichever invocations perform them and however
\* their calls interleave with each other and with the controller's.
C27_ReadsAgree ==
  \A r1, r2 \in Requests :
    (HasRead(r1) /\ HasRead(r2) /\ rd[r1].at = rd[r2].at) =>
      rd[r1].val = rd[r2].val

\* two invocations have read the flag after the controller's first write and
\* before its second, and one of them while the writer was waiting
C27_Witness ==
  \E r1, r2 \in Requests :
    /\ r1 # r2
    /\ rd[r1].pc = "returned" /\ rd[r2].pc = "read"
    /\ rd[r1].at = 1 /\ rd[r2].at = 1
    /\ rd[r1].val /\ rd[r2].val
    /\ mutex.pending

\* the controller writes the flag in this step
ControllerWrites == ctl'.pc # ctl.pc

\* C28: the flag is false from the start until the controller's first write;
\* the values the controller writes alternate true, false, true, ...,
\* beginning with true, and each write changes the flag; there is one
\* controller task at most, and the flag is true exactly while that task is
\* in its outage phase.
C28_WritesAlternate ==
  /\ [](outages = 0 => ~active)
  /\ [](active <=> ctl.pc = "outage")
  /\ [][ControllerWrites =>
          IF ctl.pc = "outage" THEN active /\ ~active' ELSE ~active /\ active']_vars
  /\ [][active' # active => ControllerWrites]_vars

\* the controller has written true, false, true, false
C28_Witness ==
  /\ mode = "receiver" /\ cfg.outageRepeat
  /\ outages >= 2 /\ ~active /\ ctl.pc = "normal_wait"

\* C29: every requestsPerSecond value that configuration validation accepts
\* is greater than 0 and yields a strictly positive tick interval, so that
\* the generator's ticker can always be created.
C29_AcceptedRatesPositive ==
  mode = "sender" =>
    /\ cfg.rps.num > 0
    /\ Interval(cfg.rps) > 0
    /\ gen.pc # "panicked"

====
